---------------------------- MODULE Spec2Model ----------------------------
(***************************************************************************)
(* The sequential-thinking session of glutamate_testmcpserver:             *)
(* SequentialThinkingServer (validateThoughtData, processThought) and the  *)
(* tool handler SequentialThinkingHttpServer registers for it.             *)
(***************************************************************************)
EXTENDS Integers, Sequences, FiniteSets, TLC

(***************************************************************************)
(* Bounds of the model.                                                    *)
(***************************************************************************)
\* calls are taken while thoughtHistory is shorter than this
MaxHistory == 3
\* the numbers given to the validator range over -1..MaxNum
MaxNum == 2

(***************************************************************************)
(* JavaScript values.  Every value is a record of the same shape, so that  *)
(* values of different JavaScript types can be compared.                   *)
(*   t : the kind of value, s / n / b : its payload.                       *)
(***************************************************************************)
JsValue(t, s, n, b) == [t |-> t, s |-> s, n |-> n, b |-> b]
Undefined == JsValue("undefined", "", 0, FALSE)
Null      == JsValue("null", "", 0, FALSE)
NaN       == JsValue("nan", "", 0, FALSE)
Str(x)    == JsValue("string", x, 0, FALSE)
Num(x)    == JsValue("number", "", x, FALSE)
Bool(x)   == JsValue("boolean", "", 0, x)

\* the typeof operator
Typeof(v) ==
  CASE v.t = "undefined" -> "undefined"
    [] v.t = "null"      -> "object"
    [] v.t = "string"    -> "string"
    [] v.t = "number"    -> "number"
    [] v.t = "nan"       -> "number"
    [] v.t = "boolean"   -> "boolean"

\* ToBoolean: what `!x` and `if (x)` test
Truthy(v) ==
  CASE v.t = "string"  -> v.s # ""
    [] v.t = "number"  -> v.n # 0
    [] v.t = "boolean" -> v.b
    [] OTHER           -> FALSE

(***************************************************************************)
(* The input of a call: an object with the nine ThoughtData properties     *)
(* (a property that is absent reads as Undefined), or null, undefined or   *)
(* a primitive.                                                            *)
(***************************************************************************)
ThoughtData(th, tn, tt, ntn, rev, revises, bft, bid, more) ==
  [thought |-> th, thoughtNumber |-> tn, totalThoughts |-> tt,
   nextThoughtNeeded |-> ntn, isRevision |-> rev, revisesThought |-> revises,
   branchFromThought |-> bft, branchId |-> bid, needsMoreThoughts |-> more]

NoRecord ==
  ThoughtData(Undefined, Undefined, Undefined, Undefined, Undefined,
              Undefined, Undefined, Undefined, Undefined)

Obj(rec)  == [kind |-> "object", data |-> rec]
NullInput == [kind |-> "null", data |-> NoRecord]
UndefinedInput == [kind |-> "undefined", data |-> NoRecord]
\* a number or a string given as the input: every property reads as undefined
PrimitiveInput == [kind |-> "primitive", data |-> NoRecord]

(***************************************************************************)
(* Error messages.                                                         *)
(***************************************************************************)
MsgThought       == "Invalid thought: must be a string"
MsgThoughtNumber == "Invalid thoughtNumber: must be a number"
MsgTotalThoughts == "Invalid totalThoughts: must be a number"
MsgNextThoughtNeeded == "Invalid nextThoughtNeeded: must be a boolean"
\* reading a property of null / undefined (data.thought, line 49)
MsgTypeErrorReadNull == "Cannot read properties of null (reading 'thought')"
MsgTypeErrorReadUndefined ==
  "Cannot read properties of undefined (reading 'thought')"
\* calling .push on an inherited, non-array property (line 117)
MsgTypeErrorPush == "this.branches[validatedInput.branchId].push is not a function"

\* the outcome of a block of code: a value, or an exception with its message
Return(v)  == [thrown |-> FALSE, message |-> "", value |-> v]
Throw(msg) == [thrown |-> TRUE, message |-> msg, value |-> NoRecord]

(***************************************************************************)
(* validateThoughtData                                                     *)
(***************************************************************************)
thoughtInvalid(data) ==
  ~Truthy(data.thought) \/ Typeof(data.thought) # "string"

thoughtNumberInvalid(data) ==
  ~Truthy(data.thoughtNumber) \/ Typeof(data.thoughtNumber) # "number"

totalThoughtsInvalid(data) ==
  ~Truthy(data.totalThoughts) \/ Typeof(data.totalThoughts) # "number"

\* bug: an absent nextThoughtNeeded let through
nextThoughtNeededInvalid_lax(data) ==
  Typeof(data.nextThoughtNeeded) \notin {"boolean", "undefined"}

nextThoughtNeededInvalid(data) ==
  Typeof(data.nextThoughtNeeded) # "boolean"

\* bug: totalThoughts checked before thoughtNumber
validateThoughtData_reordered(input) ==
  IF input.kind = "null" THEN Throw(MsgTypeErrorReadNull)
  ELSE IF input.kind = "undefined" THEN Throw(MsgTypeErrorReadUndefined)
  ELSE IF thoughtInvalid(input.data) THEN Throw(MsgThought)
  ELSE IF totalThoughtsInvalid(input.data) THEN Throw(MsgTotalThoughts)
  ELSE IF thoughtNumberInvalid(input.data) THEN Throw(MsgThoughtNumber)
  ELSE IF nextThoughtNeededInvalid(input.data) THEN Throw(MsgNextThoughtNeeded)
  ELSE Return(input.data)

validateThoughtData(input) ==
  IF input.kind = "null" THEN Throw(MsgTypeErrorReadNull)
  ELSE IF input.kind = "undefined" THEN Throw(MsgTypeErrorReadUndefined)
  ELSE IF thoughtInvalid(input.data) THEN Throw(MsgThought)
  ELSE IF thoughtNumberInvalid(input.data) THEN Throw(MsgThoughtNumber)
  ELSE IF totalThoughtsInvalid(input.data) THEN Throw(MsgTotalThoughts)
  ELSE IF nextThoughtNeededInvalid(input.data) THEN Throw(MsgNextThoughtNeeded)
  ELSE Return(input.data)


(***************************************************************************)
(* The session state of SequentialThinkingServer.                          *)
(*   heap           the ThoughtData objects validateThoughtData has        *)
(*                  created; an object's reference is its index            *)
(*   thoughtHistory the references pushed to this.thoughtHistory           *)
(*   branches       this.branches: its own properties in creation order,   *)
(*                  each a key and the array of references stored under it *)
(* and what the last call was given and gave back.                         *)
(*   logged         the last block formatThought rendered for Logger.log   *)
(***************************************************************************)
VARIABLES heap, thoughtHistory, branches, lastOp, lastInput, result, response,
          validated, logged

(***************************************************************************)
(* The state of SequentialThinkingHttpServer and of its clients.           *)
(*   sseTransport  this.sseTransport: 0 for null, else the number of the   *)
(*                 SSEServerTransport it holds                             *)
(*   transports    the number of transports created so far                 *)
(*   inflight      the POSTed calls handed to a transport whose tool       *)
(*                 handler has not run yet                                 *)
(*   lastHttp      the answer to the last POST /messages                   *)
(*   successes     thoughtHistoryLength of the success envelopes the tool  *)
(*                 has returned, in the order of the calls                 *)
(***************************************************************************)
VARIABLES sseTransport, transports, inflight, lastHttp, successes

httpVars == <<sseTransport, transports, inflight, lastHttp, successes>>

(***************************************************************************)
(* The state of PostgresDatabaseService.executeQuery and of the database   *)
(* connection it uses.                                                     *)
(*   queryPc    the position in executeQuery                               *)
(*   sql        the caller's SQL, as the statements the string holds       *)
(*   sent       what the call has sent on its client, in order             *)
(*   txn        the transaction state of the client's connection           *)
(*   outside    a statement of the caller ran outside a read-only          *)
(*              transaction                                                *)
(*   committed  a write of the caller was committed                        *)
(*   outcome    how the last call ended                                    *)
(*   queries    the number of calls made                                   *)
(***************************************************************************)
VARIABLES queryPc, sql, sent, txn, outside, committed, outcome, queries

dbVars == <<queryPc, sql, sent, txn, outside, committed, outcome, queries>>

vars == <<heap, thoughtHistory, branches, lastOp, lastInput, result, response,
          validated, logged, httpVars, dbVars>>

\* properties every object inherits from Object.prototype
InheritedKeys ==
  {"constructor", "__proto__", "toString", "toLocaleString", "valueOf",
   "hasOwnProperty", "isPrototypeOf", "propertyIsEnumerable"}

\* the position of own property k in br, 0 when br has no such own property
OwnIndex(br, k) ==
  IF \E i \in 1..Len(br) : br[i].key = k
  THEN CHOOSE i \in 1..Len(br) : br[i].key = k
  ELSE 0

\* this.branches[k]: an own array, an inherited (truthy, non-array) value,
\* or undefined
getBranch(br, k) ==
  IF OwnIndex(br, k) > 0 THEN "array"
  ELSE IF k \in InheritedKeys THEN "inherited"
  ELSE "undefined"

\* canonical array-index keys, ascending
NumericKeys == <<"0", "1", "2", "3", "4", "5", "6", "7", "8", "9">>

IsNumericKey(k) == \E i \in 1..Len(NumericKeys) : NumericKeys[i] = k

KeysOf(br) == [i \in 1..Len(br) |-> br[i].key]

\* Object.keys: integer-like keys ascending, then the others in creation order
ObjectKeys(br) ==
  SelectSeq(NumericKeys, LAMBDA k : OwnIndex(br, k) > 0)
    \o SelectSeq(KeysOf(br), LAMBDA k : ~IsNumericKey(k))

(***************************************************************************)
(* The envelopes processThought returns.  keys are the keys of the         *)
(* serialized body, isError the flag on the envelope; raised marks an      *)
(* exception that leaves the function instead of a returned envelope.      *)
(***************************************************************************)
Envelope(raised, isError, keys, error, status, tn, tt, ntn, brs, len) ==
  [raised |-> raised, isError |-> isError, keys |-> keys, error |-> error,
   status |-> status, thoughtNumber |-> tn, totalThoughts |-> tt,
   nextThoughtNeeded |-> ntn, branches |-> brs, thoughtHistoryLength |-> len]

NoEnvelope ==
  Envelope(FALSE, FALSE, {}, "", "", Undefined, Undefined, Undefined, <<>>, 0)

Raised(msg) ==
  Envelope(TRUE, FALSE, {}, msg, "", Undefined, Undefined, Undefined, <<>>, 0)

SuccessKeys ==
  {"thoughtNumber", "totalThoughts", "nextThoughtNeeded", "branches",
   "thoughtHistoryLength"}

ErrorKeys == {"error", "status"}

\* bug: the length read before the push
successEnvelope_staleLength(rec, br, th) ==
  Envelope(FALSE, FALSE, SuccessKeys, "", "", rec.thoughtNumber,
           rec.totalThoughts, rec.nextThoughtNeeded, ObjectKeys(br),
           Len(th) - 1)

successEnvelope(rec, br, th) ==
  Envelope(FALSE, FALSE, SuccessKeys, "", "", rec.thoughtNumber,
           rec.totalThoughts, rec.nextThoughtNeeded, ObjectKeys(br), Len(th))

\* bug: only the validator's errors converted, any other rethrown
catchError_rethrow(msg) ==
  IF msg \in {MsgThought, MsgThoughtNumber, MsgTotalThoughts,
              MsgNextThoughtNeeded}
  THEN Envelope(FALSE, TRUE, ErrorKeys, msg, "failed", Undefined, Undefined,
                Undefined, <<>>, 0)
  ELSE Raised(msg)

\* the catch block: every thrown value here is an Error, so its message
catchError(msg) ==
  Envelope(FALSE, TRUE, ErrorKeys, msg, "failed", Undefined, Undefined,
           Undefined, <<>>, 0)

(***************************************************************************)
(* formatThought.  A text is the sequence of its pieces; the frame around  *)
(* the header and the thought is left out.                                 *)
(***************************************************************************)
\* a one-digit integer as text
NumberToString(n) ==
  IF n < 0 THEN <<"-", NumericKeys[1 - n]>> ELSE <<NumericKeys[n + 1]>>

\* ${v} in a template literal
TemplateString(v) ==
  CASE v.t = "undefined" -> <<"undefined">>
    [] v.t = "null"      -> <<"null">>
    [] v.t = "nan"       -> <<"NaN">>
    [] v.t = "string"    -> <<v.s>>
    [] v.t = "number"    -> NumberToString(v.n)
    [] v.t = "boolean"   -> IF v.b THEN <<"true">> ELSE <<"false">>

Block(label, context, header) ==
  [label |-> label, context |-> context, header |-> header]

NoBlock == Block("", <<>>, <<>>)

\* bug: the branch test made before the revision test
formatPrefix_branchFirst(rec) ==
  IF Truthy(rec.branchFromThought) THEN "Branch"
  ELSE IF Truthy(rec.isRevision) THEN "Revision"
  ELSE "Thought"

formatPrefix(rec) ==
  IF Truthy(rec.isRevision) THEN "Revision"
  ELSE IF Truthy(rec.branchFromThought) THEN "Branch"
  ELSE "Thought"

formatContext(rec) ==
  IF Truthy(rec.isRevision)
  THEN <<" (revising thought ">> \o TemplateString(rec.revisesThought) \o <<")">>
  ELSE IF Truthy(rec.branchFromThought)
  THEN <<" (from thought ">> \o TemplateString(rec.branchFromThought)
         \o <<", ID: ">> \o TemplateString(rec.branchId) \o <<")">>
  ELSE <<>>

formatThought(rec) ==
  Block(formatPrefix(rec), formatContext(rec),
        <<formatPrefix(rec), " ">> \o TemplateString(rec.thoughtNumber) \o <<"/">>
          \o TemplateString(rec.totalThoughts) \o formatContext(rec))

(***************************************************************************)
(* processThought                                                          *)
(***************************************************************************)
\* a > b on numbers
Greater(a, b) == a.n > b.n

\* bug: the clamp applied to the wrong field
selfCorrect_lowersNumber(rec) ==
  IF Greater(rec.thoughtNumber, rec.totalThoughts)
  THEN [rec EXCEPT !.thoughtNumber = rec.totalThoughts]
  ELSE rec

\* bug: the correction left out
selfCorrect_never(rec) == rec

selfCorrect(rec) ==
  IF Greater(rec.thoughtNumber, rec.totalThoughts)
  THEN [rec EXCEPT !.totalThoughts = rec.thoughtNumber]
  ELSE rec

\* bug: the history assigned instead of pushed to
pushHistory_assign(th, ref) == <<ref>>

\* bug: unshift instead of push
pushHistory_unshift(th, ref) == <<ref>> \o th

pushHistory(th, ref) == Append(th, ref)

\* bug: a copy of the record pushed ({...validatedInput}); the copy's
\* reference, -ref, is no reference of the history
pushBranch_copy(items, ref) == Append(items, 0 - ref)

pushBranch(items, ref) == Append(items, ref)

\* bug: the branch registered on branchId alone
registerBranch_idOnly(rec, ref, br) ==
  IF Truthy(rec.branchId)
  THEN LET k   == rec.branchId.s
           br1 == IF getBranch(br, k) = "undefined"
                  THEN Append(br, [key |-> k, items |-> <<>>])
                  ELSE br
           i   == OwnIndex(br1, k)
       IN IF getBranch(br1, k) = "array"
          THEN [thrown |-> FALSE, message |-> "",
                branches |-> [br1 EXCEPT ![i].items = pushBranch(@, ref)]]
          ELSE [thrown |-> TRUE, message |-> MsgTypeErrorPush,
                branches |-> br1]
  ELSE [thrown |-> FALSE, message |-> "", branches |-> br]

\* lines 113-118: [thrown, message, branches]
registerBranch(rec, ref, br) ==
  IF Truthy(rec.branchFromThought) /\ Truthy(rec.branchId)
  THEN LET k   == rec.branchId.s
           br1 == IF getBranch(br, k) = "undefined"
                  THEN Append(br, [key |-> k, items |-> <<>>])
                  ELSE br
           i   == OwnIndex(br1, k)
       IN IF getBranch(br1, k) = "array"
          THEN [thrown |-> FALSE, message |-> "",
                branches |-> [br1 EXCEPT ![i].items = pushBranch(@, ref)]]
          ELSE [thrown |-> TRUE, message |-> MsgTypeErrorPush,
                branches |-> br1]
  ELSE [thrown |-> FALSE, message |-> "", branches |-> br]

\* the try block, lines 104-134
tryBody(input, hp, th, br) ==
  LET v == validateThoughtData(input) IN
  IF v.thrown
  THEN [thrown |-> TRUE, message |-> v.message, heap |-> hp,
        thoughtHistory |-> th, branches |-> br, envelope |-> NoEnvelope,
        logs |-> <<>>]
  ELSE LET rec == selfCorrect(v.value)
           ref == Len(hp) + 1
           hp1 == Append(hp, rec)
           th1 == pushHistory(th, ref)
           b   == registerBranch(rec, ref, br)
       IN [thrown |-> b.thrown, message |-> b.message, heap |-> hp1,
           thoughtHistory |-> th1, branches |-> b.branches,
           envelope |-> IF b.thrown THEN NoEnvelope
                        ELSE successEnvelope(rec, b.branches, th1),
           logs |-> IF b.thrown THEN <<>> ELSE <<formatThought(rec)>>]

processThought(input, hp, th, br) ==
  LET t == tryBody(input, hp, th, br) IN
  [heap |-> t.heap, thoughtHistory |-> t.thoughtHistory,
   branches |-> t.branches, logs |-> t.logs,
   result |-> IF t.thrown THEN catchError(t.message) ELSE t.envelope]

(***************************************************************************)
(* The tool registered as "sequentialthinking".                            *)
(***************************************************************************)
\* the zod shape of the tool's parameters, lines 179-189
IsUndefined(v) == v.t = "undefined"

schemaAccepts(input) ==
  /\ input.kind = "object"
  /\ input.data.thought.t = "string"
  /\ input.data.nextThoughtNeeded.t = "boolean"
  /\ input.data.thoughtNumber.t = "number" /\ input.data.thoughtNumber.n >= 1
  /\ input.data.totalThoughts.t = "number" /\ input.data.totalThoughts.n >= 1
  /\ (IsUndefined(input.data.isRevision) \/ input.data.isRevision.t = "boolean")
  /\ \/ IsUndefined(input.data.revisesThought)
     \/ (input.data.revisesThought.t = "number" /\ input.data.revisesThought.n >= 1)
  /\ \/ IsUndefined(input.data.branchFromThought)
     \/ (input.data.branchFromThought.t = "number" /\ input.data.branchFromThought.n >= 1)
  /\ (IsUndefined(input.data.branchId) \/ input.data.branchId.t = "string")
  /\ \/ IsUndefined(input.data.needsMoreThoughts)
     \/ input.data.needsMoreThoughts.t = "boolean"

\* the handler, lines 190-198: a new envelope holding only content
toolHandler(res) == [res EXCEPT !.isError = FALSE]

(***************************************************************************)
(* The inputs the calls are drawn from.                                    *)
(***************************************************************************)
\* the thoughtNumber / totalThoughts values of the session's calls
SessionNums == {1, 2}

Thought(tn, tt, ntn, rev, revises, bft, bid, more) ==
  Obj(ThoughtData(Str("s"), tn, tt, ntn, rev, revises, bft, bid, more))

\* required fields only
RequiredInputs ==
  {Thought(Num(tn), Num(tt), Bool(TRUE), Undefined, Undefined, Undefined,
           Undefined, Undefined) : tn \in SessionNums, tt \in SessionNums}
  \cup {Thought(Num(1), Num(1), Bool(FALSE), Undefined, Undefined, Undefined,
                Undefined, Undefined)}

BranchIds == {"", "b1", "1", "constructor"}

Branch(bft, bid) ==
  Thought(Num(1), Num(1), Bool(TRUE), Undefined, Undefined, bft, bid,
          Undefined)

BranchInputs ==
  {Branch(Num(1), Str(b)) : b \in BranchIds}
  \cup {Branch(Num(0), Str("b1")), Branch(Undefined, Str("b1")),
        Branch(Num(1), Undefined)}

RevisionInputs ==
  {Thought(Num(1), Num(1), Bool(TRUE), Bool(TRUE), Num(1), Undefined,
           Undefined, Bool(TRUE)),
   Thought(Num(1), Num(1), Bool(TRUE), Bool(TRUE), Num(1), Num(1), Str("b1"),
           Undefined)}

InvalidInputs ==
  {NullInput, PrimitiveInput,
   Obj(ThoughtData(Undefined, Num(1), Num(1), Bool(TRUE), Undefined,
                   Undefined, Undefined, Undefined, Undefined)),
   Obj(ThoughtData(Str(""), Num(1), Num(1), Bool(TRUE), Undefined,
                   Undefined, Undefined, Undefined, Undefined)),
   Obj(ThoughtData(Str("s"), Num(0), Num(1), Bool(TRUE), Undefined,
                   Undefined, Undefined, Undefined, Undefined)),
   Obj(ThoughtData(Str("s"), Num(1), Num(1), Undefined, Undefined,
                   Undefined, Num(1), Str("b1"), Undefined))}

Inputs == RequiredInputs \cup BranchInputs \cup RevisionInputs \cup InvalidInputs

(***************************************************************************)
(* The HTTP server state after construction.                               *)
(***************************************************************************)
BadRequest == 400

\* the answer to a POST: the status the route sends itself (0 when the
\* transport answers) and the transport the request was handed to (0: none)
HttpAnswer(status, transport) == [status |-> status, transport |-> transport]

HttpInit ==
  /\ sseTransport = 0
  /\ transports = 0
  /\ inflight = <<>>
  /\ lastHttp = HttpAnswer(0, 0)
  /\ successes = <<>>

(***************************************************************************)
(* The Postgres service before its first query.                            *)
(***************************************************************************)
DbInit ==
  /\ queryPc = "idle"
  /\ sql = <<>>
  /\ sent = <<>>
  /\ txn = "none"
  /\ outside = FALSE
  /\ committed = FALSE
  /\ outcome = "none"
  /\ queries = 0

(***************************************************************************)
(* The specification of the session.                                       *)
(***************************************************************************)
Init ==
  /\ heap = <<>>
  /\ thoughtHistory = <<>>
  /\ branches = <<>>
  /\ lastOp = "init"
  /\ lastInput = UndefinedInput
  /\ result = NoEnvelope
  /\ response = NoEnvelope
  /\ validated = Throw("")
  /\ logged = NoBlock
  /\ HttpInit
  /\ DbInit

\* a call of the public method processThought
ProcessThought(input) ==
  /\ Len(thoughtHistory) < MaxHistory
  /\ \E out \in {processThought(input, heap, thoughtHistory, branches)} :
       /\ heap' = out.heap
       /\ thoughtHistory' = out.thoughtHistory
       /\ branches' = out.branches
       /\ result' = out.result
       /\ logged' = IF out.logs = <<>> THEN logged ELSE out.logs[1]
  /\ lastOp' = "processThought"
  /\ lastInput' = input
  /\ response' = NoEnvelope
  /\ UNCHANGED <<validated, httpVars, dbVars>>

\* a call of the tool "sequentialthinking" with parameters the shape accepts
ToolCall(params) ==
  /\ Len(thoughtHistory) < MaxHistory
  /\ schemaAccepts(params)
  /\ \E out \in {processThought(params, heap, thoughtHistory, branches)} :
       /\ heap' = out.heap
       /\ thoughtHistory' = out.thoughtHistory
       /\ branches' = out.branches
       /\ result' = out.result
       /\ response' = toolHandler(out.result)
       /\ logged' = IF out.logs = <<>> THEN logged ELSE out.logs[1]
  /\ lastOp' = "tool"
  /\ lastInput' = params
  /\ UNCHANGED <<validated, httpVars, dbVars>>

Next ==
  \/ \E input \in Inputs : ProcessThought(input)
  \/ \E params \in Inputs : ToolCall(params)

Spec == Init /\ [][Next]_vars


(***************************************************************************)
(* The specification of the validator alone: validateThoughtData applied   *)
(* to every combination of values of the required fields.                  *)
(***************************************************************************)
VThoughts == {Undefined, Null, Str(""), Str("s"), Num(7)}

VNumbers == {Undefined, NaN, Str("1")} \cup {Num(n) : n \in -1..MaxNum}

VBooleans == {Undefined, Bool(TRUE), Bool(FALSE), Str("true"), Num(0)}

\* the optional fields: all absent, or all present with out-of-range values
VOptionals ==
  {<<Undefined, Undefined, Undefined, Undefined, Undefined>>,
   <<Bool(FALSE), Num(-1), Num(0), Str(""), Bool(FALSE)>>}

VInputs ==
  {Obj(ThoughtData(th, tn, tt, ntn, o[1], o[2], o[3], o[4], o[5])) :
     th \in VThoughts, tn \in VNumbers, tt \in VNumbers, ntn \in VBooleans,
     o \in VOptionals}
  \cup {NullInput, UndefinedInput, PrimitiveInput}

\* the input is drawn first, then validateThoughtData is applied to it
InitValidate ==
  /\ heap = <<>>
  /\ thoughtHistory = <<>>
  /\ branches = <<>>
  /\ lastOp = "input"
  /\ lastInput \in VInputs
  /\ result = NoEnvelope
  /\ response = NoEnvelope
  /\ validated = Throw("")
  /\ logged = NoBlock
  /\ HttpInit
  /\ DbInit

Validate ==
  /\ lastOp = "input"
  /\ validated' = validateThoughtData(lastInput)
  /\ lastOp' = "validate"
  /\ UNCHANGED <<heap, thoughtHistory, branches, lastInput, result, response,
                 logged, httpVars, dbVars>>

NextValidate == Validate

SpecValidate == InitValidate /\ [][NextValidate]_vars


(***************************************************************************)
(* The specification of the formatter alone: formatThought applied to      *)
(* every record of the data model (numbers positive, as the tool's shape   *)
(* requires) over the values below.                                        *)
(***************************************************************************)
FPositive == {Num(n) : n \in 1..MaxNum}

FInputs ==
  {Obj(ThoughtData(Str("s"), tn, tt, Bool(TRUE), rev, revises, bft, bid,
                   Undefined)) :
     tn \in FPositive, tt \in FPositive,
     rev \in {Undefined, Bool(TRUE), Bool(FALSE)},
     revises \in {Undefined} \cup FPositive,
     bft \in {Undefined} \cup FPositive,
     bid \in {Undefined, Str("b1"), Str("1")}}

InitFormat ==
  /\ heap = <<>>
  /\ thoughtHistory = <<>>
  /\ branches = <<>>
  /\ lastOp = "record"
  /\ lastInput \in FInputs
  /\ result = NoEnvelope
  /\ response = NoEnvelope
  /\ validated = Throw("")
  /\ logged = NoBlock
  /\ HttpInit
  /\ DbInit

Format ==
  /\ lastOp = "record"
  /\ logged' = formatThought(lastInput.data)
  /\ lastOp' = "format"
  /\ UNCHANGED <<heap, thoughtHistory, branches, lastInput, result, response,
                 validated, httpVars, dbVars>>

NextFormat == Format

SpecFormat == InitFormat /\ [][NextFormat]_vars

(***************************************************************************)
(* The specification of the HTTP server: GET /sse, POST /messages and the  *)
(* tool handler running for the calls the transports were handed.          *)
(***************************************************************************)
\* the session a new SequentialThinkingServer starts with
Session(hp, th, br) == [heap |-> hp, thoughtHistory |-> th, branches |-> br]

\* bug: a new SequentialThinkingServer made for every connection
sessionOnSse_fresh(current) == Session(<<>>, <<>>, <<>>)

\* GET /sse leaves this.thinkingServer, made in the constructor, in place
sessionOnSse(current) == current

\* bug: the first transport kept (if (!this.sseTransport) ...)
assignTransport_keepFirst(current, fresh) ==
  IF current = 0 THEN fresh ELSE current

\* this.sseTransport = new SSEServerTransport(...)
assignTransport(current, fresh) == fresh

\* the calls the clients post: a plain thought, and one on the branch
\* "constructor"
HttpParams ==
  {Thought(Num(1), Num(1), Bool(TRUE), Undefined, Undefined, Undefined,
           Undefined, Undefined),
   Branch(Num(1), Str("constructor"))}

\* at most this many SSE connections are opened
MaxTransports == 2

\* app.get("/sse")
GetSse ==
  /\ transports < MaxTransports
  /\ transports' = transports + 1
  /\ sseTransport' = assignTransport(sseTransport, transports + 1)
  /\ \E s \in {sessionOnSse(Session(heap, thoughtHistory, branches))} :
       /\ heap' = s.heap
       /\ thoughtHistory' = s.thoughtHistory
       /\ branches' = s.branches
  /\ lastOp' = "sse"
  /\ UNCHANGED <<lastInput, result, response, validated, logged, inflight,
                 lastHttp, successes, dbVars>>

\* app.post("/messages") while this.sseTransport is null
PostRejected(params) ==
  /\ sseTransport = 0
  /\ lastHttp' = HttpAnswer(BadRequest, 0)
  /\ lastOp' = "post"
  /\ lastInput' = params
  /\ UNCHANGED <<heap, thoughtHistory, branches, result, response, validated,
                 logged, sseTransport, transports, inflight, successes, dbVars>>

\* app.post("/messages") handing the request to this.sseTransport
PostHanded(params) ==
  /\ sseTransport # 0
  /\ Len(thoughtHistory) + Len(inflight) < MaxHistory
  /\ inflight' = Append(inflight, [params |-> params, transport |-> sseTransport])
  /\ lastHttp' = HttpAnswer(0, sseTransport)
  /\ lastOp' = "post"
  /\ lastInput' = params
  /\ UNCHANGED <<heap, thoughtHistory, branches, result, response, validated,
                 logged, sseTransport, transports, successes, dbVars>>

\* the tool handler running, start to end, for one of the calls in flight
HandleCall(i) ==
  /\ schemaAccepts(inflight[i].params)
  /\ \E out \in {processThought(inflight[i].params, heap, thoughtHistory, branches)} :
       /\ heap' = out.heap
       /\ thoughtHistory' = out.thoughtHistory
       /\ branches' = out.branches
       /\ result' = out.result
       /\ response' = toolHandler(out.result)
       /\ logged' = IF out.logs = <<>> THEN logged ELSE out.logs[1]
       /\ successes' = IF out.result.keys = SuccessKeys
                       THEN Append(successes, out.result.thoughtHistoryLength)
                       ELSE successes
  /\ inflight' = SubSeq(inflight, 1, i - 1) \o SubSeq(inflight, i + 1, Len(inflight))
  /\ lastOp' = "tool"
  /\ lastInput' = inflight[i].params
  /\ UNCHANGED <<validated, sseTransport, transports, lastHttp, dbVars>>

NextHttp ==
  \/ GetSse
  \/ \E params \in HttpParams : PostRejected(params)
  \/ \E params \in HttpParams : PostHanded(params)
  \/ \E i \in 1..Len(inflight) : HandleCall(i)

SpecHttp == Init /\ [][NextHttp]_vars

(***************************************************************************)
(* The specification of PostgresDatabaseService.executeQuery.  The SQL of  *)
(* the caller is one string sent by client.query(sql) without parameters;  *)
(* the database runs the statements the string holds one after the other   *)
(* and stops at the first that fails.                                      *)
(***************************************************************************)
\* the longest SQL string of a caller, in statements, and the calls made
MaxStatements == 2
MaxQueries == 2

\* the statements that matter here: a read, a write, and COMMIT
Statements == {"select", "write", "commit"}

RECURSIVE SeqsOf(_, _)
SeqsOf(S, n) ==
  IF n = 0 THEN {<<>>}
  ELSE {<<>>} \cup {<<x>> \o q : x \in S, q \in SeqsOf(S, n - 1)}

SqlStrings == SeqsOf(Statements, MaxStatements) \ {<<>>}

\* the connection while a string is run
Connection(t, o, c, e) == [txn |-> t, outside |-> o, committed |-> c, error |-> e]

\* one statement on the connection
runStatement(conn, kind) ==
  IF conn.error THEN conn
  ELSE IF conn.txn = "aborted" THEN
    IF kind = "commit" THEN [conn EXCEPT !.txn = "none"]
    ELSE [conn EXCEPT !.error = TRUE]
  ELSE IF conn.txn = "readonly" THEN
    CASE kind = "select" -> conn
      [] kind = "write"  -> [conn EXCEPT !.txn = "aborted", !.error = TRUE]
      [] kind = "commit" -> [conn EXCEPT !.txn = "none"]
  ELSE
    CASE kind = "select" -> [conn EXCEPT !.outside = TRUE]
      [] kind = "write"  -> [conn EXCEPT !.outside = TRUE, !.committed = TRUE]
      [] kind = "commit" -> conn

RECURSIVE runStatements(_, _)
runStatements(conn, stmts) ==
  IF stmts = <<>> THEN conn
  ELSE runStatements(runStatement(conn, Head(stmts)), Tail(stmts))

\* what a query leaves alone: the thinking session and the HTTP state
otherVars == <<heap, thoughtHistory, branches, lastInput, result, response,
               validated, logged, httpVars>>

\* executeQuery(sql) called
ExecuteQuery(s) ==
  /\ queryPc = "idle"
  /\ queries < MaxQueries
  /\ queries' = queries + 1
  /\ sql' = s
  /\ sent' = <<>>
  /\ outcome' = "pending"
  /\ queryPc' = "connect"
  /\ lastOp' = "query"
  /\ UNCHANGED <<txn, outside, committed, otherVars>>

\* const client = await this.pool.connect()
Connect ==
  /\ queryPc = "connect"
  /\ \E ok \in BOOLEAN :
       /\ queryPc' = IF ok THEN "begin" ELSE "idle"
       /\ outcome' = IF ok THEN outcome ELSE "throw"
  /\ lastOp' = "connect"
  /\ UNCHANGED <<sql, sent, txn, outside, committed, queries, otherVars>>

\* await client.query("BEGIN TRANSACTION READ ONLY")
Begin ==
  /\ queryPc = "begin"
  /\ sent' = Append(sent, "BEGIN")
  /\ \E ok \in BOOLEAN :
       /\ txn' = IF ok THEN "readonly" ELSE txn
       /\ queryPc' = IF ok THEN "sql" ELSE "finally"
       /\ outcome' = IF ok THEN outcome ELSE "throw"
  /\ lastOp' = "begin"
  /\ UNCHANGED <<sql, outside, committed, queries, otherVars>>

\* const result = await client.query(sql); return result.rows
RunSql ==
  /\ queryPc = "sql"
  /\ sent' = Append(sent, "SQL")
  /\ \E rejected \in BOOLEAN :
       \E conn \in {IF rejected
                    THEN Connection("aborted", outside, committed, TRUE)
                    ELSE runStatements(Connection(txn, outside, committed, FALSE), sql)} :
         /\ txn' = conn.txn
         /\ outside' = conn.outside
         /\ committed' = conn.committed
         /\ outcome' = IF conn.error THEN "throw" ELSE "rows"
  /\ queryPc' = "finally"
  /\ lastOp' = "sql"
  /\ UNCHANGED <<sql, queries, otherVars>>

\* finally: client.query("ROLLBACK") and client.release()
Finally ==
  /\ queryPc = "finally"
  /\ sent' = Append(sent, "ROLLBACK")
  /\ txn' = "none"
  /\ queryPc' = "idle"
  /\ lastOp' = "finally"
  /\ UNCHANGED <<sql, outside, committed, outcome, queries, otherVars>>

NextQuery ==
  \/ \E s \in SqlStrings : ExecuteQuery(s)
  \/ Connect
  \/ Begin
  \/ RunSql
  \/ Finally

SpecQuery == Init /\ [][NextQuery]_vars

(***************************************************************************)
(* Properties.                                                             *)
(***************************************************************************)
IsCall(op) == op \in {"processThought", "tool"}

\* the input passes validation
Accepted(input) == ~validateThoughtData(input).thrown

Range(seq) == {seq[i] : i \in 1..Len(seq)}

\* the record the last push added to the history
LastRecord(hp, th) == hp[th[Len(th)]]

IsSuccessEnvelope(e) == ~e.raised /\ e.keys = SuccessKeys /\ ~e.isError

IsErrorEnvelope(e) ==
  ~e.raised /\ e.keys = ErrorKeys /\ e.isError /\ e.status = "failed"

\* C1: a call whose input passes validation makes thoughtHistory longer by
\* exactly 1, and no call makes it shorter.
C1_HistoryGrowsByOne ==
  [][/\ Len(thoughtHistory') >= Len(thoughtHistory)
     /\ (IsCall(lastOp') /\ Accepted(lastInput'))
          => Len(thoughtHistory') = Len(thoughtHistory) + 1]_vars

C1_Witness ==
  /\ IsCall(lastOp)
  /\ Accepted(lastInput)
  /\ Len(thoughtHistory) = 2

\* C2: for an accepted input the stored totalThoughts is the input's
\* thoughtNumber when that is greater than the input's totalThoughts and the
\* input's totalThoughts otherwise; thoughtNumber is stored as given.
C2_StoredTotalThoughts ==
  (IsCall(lastOp) /\ Accepted(lastInput)) =>
     LET rec == LastRecord(heap, thoughtHistory)
         in  == lastInput.data
     IN /\ rec.thoughtNumber = in.thoughtNumber
        /\ rec.totalThoughts =
             IF in.thoughtNumber.n > in.totalThoughts.n
             THEN in.thoughtNumber ELSE in.totalThoughts

C2_Witness ==
  /\ IsCall(lastOp)
  /\ Accepted(lastInput)
  /\ lastInput.data.thoughtNumber.n > lastInput.data.totalThoughts.n
  /\ IsSuccessEnvelope(result)
  /\ result.totalThoughts = lastInput.data.thoughtNumber

\* the largest totalThoughts among the records of the history
MaxTotalThoughts(hp, th) ==
  LET totals == {hp[th[i]].totalThoughts.n : i \in 1..Len(th)}
  IN CHOOSE m \in totals : \A x \in totals : x <= m

\* C3 as stated: the record's totalThoughts is raised to its thoughtNumber
\* exactly when its thoughtNumber exceeds the largest totalThoughts of the
\* records already in the history; earlier records are left alone.
C3_TrackedMaximum ==
  [][(IsCall(lastOp') /\ Accepted(lastInput') /\ Len(thoughtHistory) > 0) =>
       LET in  == lastInput'.data
           rec == LastRecord(heap', thoughtHistory')
       IN /\ rec.totalThoughts =
               IF in.thoughtNumber.n > MaxTotalThoughts(heap, thoughtHistory)
               THEN in.thoughtNumber ELSE in.totalThoughts
          /\ \A r \in 1..Len(heap) : heap'[r] = heap[r]]_vars

\* C3 amended: the record's totalThoughts is raised to its thoughtNumber
\* exactly when its thoughtNumber exceeds its own totalThoughts, whatever the
\* history holds; only the new record is changed, never an earlier one.
C3_SelfCorrection ==
  [][(IsCall(lastOp') /\ Accepted(lastInput')) =>
       LET in  == lastInput'.data
           rec == LastRecord(heap', thoughtHistory')
       IN /\ (rec.totalThoughts # in.totalThoughts)
               <=> (in.thoughtNumber.n > in.totalThoughts.n)
          /\ (rec.totalThoughts # in.totalThoughts)
               => rec.totalThoughts = in.thoughtNumber
          /\ Len(heap') = Len(heap) + 1
          /\ \A r \in 1..Len(heap) : heap'[r] = heap[r]]_vars

\* raised although thoughtNumber does not exceed the largest totalThoughts
\* of the earlier records
C3_Witness ==
  /\ IsCall(lastOp)
  /\ Accepted(lastInput)
  /\ Len(thoughtHistory) >= 2
  /\ lastInput.data.thoughtNumber.n > lastInput.data.totalThoughts.n
  /\ lastInput.data.thoughtNumber.n
       <= MaxTotalThoughts(heap, SubSeq(thoughtHistory, 1, Len(thoughtHistory) - 1))
  /\ LastRecord(heap, thoughtHistory).totalThoughts = lastInput.data.thoughtNumber

\* C4: every record of every branch sequence is a record of the history (the
\* same object).
C4_BranchRecordsInHistory ==
  \A i \in 1..Len(branches) :
    \A j \in 1..Len(branches[i].items) :
      branches[i].items[j] \in Range(thoughtHistory)

C4_Witness ==
  /\ Len(thoughtHistory) = 3
  /\ \E i \in 1..Len(branches) : Len(branches[i].items) = 2

\* the array stored under branch identifier b, empty when there is none
BranchItems(br, b) ==
  IF OwnIndex(br, b) > 0 THEN br[OwnIndex(br, b)].items ELSE <<>>

\* C5 as stated: for every text branchId b, branches[b] is exactly the
\* subsequence of the history, in call order, of the records that carry
\* branchId = b together with a branchFromThought.
C5_BranchIsSubsequence ==
  \A b \in BranchIds :
    BranchItems(branches, b) =
      SelectSeq(thoughtHistory,
                LAMBDA r : /\ heap[r].branchId = Str(b)
                           /\ ~IsUndefined(heap[r].branchFromThought))


ErrorWith(e, msg) == IsErrorEnvelope(e) /\ e.error = msg

\* a required field is violated: missing, of the wrong type, or falsy where
\* the validator tests the value itself
Violated(f, data) ==
  CASE f = "thought" ->
         ~(data.thought.t = "string" /\ data.thought.s # "")
    [] f = "thoughtNumber" ->
         ~(data.thoughtNumber.t = "number" /\ data.thoughtNumber.n # 0)
    [] f = "totalThoughts" ->
         ~(data.totalThoughts.t = "number" /\ data.totalThoughts.n # 0)
    [] f = "nextThoughtNeeded" ->
         data.nextThoughtNeeded.t # "boolean"

RequiredOrder ==
  <<"thought", "thoughtNumber", "totalThoughts", "nextThoughtNeeded">>

FieldMessage(f) ==
  CASE f = "thought" -> MsgThought
    [] f = "thoughtNumber" -> MsgThoughtNumber
    [] f = "totalThoughts" -> MsgTotalThoughts
    [] f = "nextThoughtNeeded" -> MsgNextThoughtNeeded

\* C6: a call whose input lacks thought returns the error envelope with
\* the thought message; one whose input lacks nextThoughtNeeded (the fields
\* before it being valid) returns it with the nextThoughtNeeded message; a
\* call whose input lacks any required field returns an error envelope with
\* status "failed"; and each leaves the history and the branch index as
\* they were.
C6_MissingFieldError ==
  [][(IsCall(lastOp') /\ lastInput'.kind = "object") =>
       LET in == lastInput'.data IN
       /\ IsUndefined(in.thought) => ErrorWith(result', MsgThought)
       /\ (/\ IsUndefined(in.nextThoughtNeeded)
           /\ \A i \in 1..3 : ~Violated(RequiredOrder[i], in))
            => ErrorWith(result', MsgNextThoughtNeeded)
       /\ (\E i \in 1..4 : IsUndefined(in[RequiredOrder[i]]))
            => /\ IsErrorEnvelope(result')
               /\ Len(thoughtHistory') = Len(thoughtHistory)
               /\ thoughtHistory' = thoughtHistory
               /\ branches' = branches]_vars

C6_Witness ==
  /\ IsCall(lastOp)
  /\ lastInput.kind = "object"
  /\ IsUndefined(lastInput.data.nextThoughtNeeded)
  /\ ~IsUndefined(lastInput.data.branchId)
  /\ ErrorWith(result, MsgNextThoughtNeeded)
  /\ Len(thoughtHistory) >= 1
  /\ Len(branches) >= 1

\* C7: when required fields of an input are violated, the error is the one
\* of the first violated field in the order thought, thoughtNumber,
\* totalThoughts, nextThoughtNeeded.
C7_FirstViolatedField ==
  (lastOp = "validate" /\ lastInput.kind = "object") =>
     \A i \in 1..4 :
       (/\ Violated(RequiredOrder[i], lastInput.data)
        /\ \A j \in 1..(i - 1) : ~Violated(RequiredOrder[j], lastInput.data))
         => /\ validated.thrown
            /\ validated.message = FieldMessage(RequiredOrder[i])

\* thoughtNumber, totalThoughts and nextThoughtNeeded all violated
C7_Witness ==
  /\ lastOp = "validate"
  /\ lastInput.kind = "object"
  /\ ~Violated("thought", lastInput.data)
  /\ Violated("thoughtNumber", lastInput.data)
  /\ Violated("totalThoughts", lastInput.data)
  /\ Violated("nextThoughtNeeded", lastInput.data)
  /\ validated.thrown
  /\ validated.message = MsgThoughtNumber

\* C8 as stated: an input whose thought is text, whose thoughtNumber and
\* totalThoughts are numeric and whose nextThoughtNeeded is boolean is
\* accepted whatever the values, and its fields are passed through.  (NaN is
\* not counted as numeric here.)
C8_RejectsOnlyMissingOrWrongType ==
  (/\ lastOp = "validate"
   /\ lastInput.kind = "object"
   /\ lastInput.data.thought.t = "string"
   /\ lastInput.data.thoughtNumber.t = "number"
   /\ lastInput.data.totalThoughts.t = "number"
   /\ lastInput.data.nextThoughtNeeded.t = "boolean")
    => /\ ~validated.thrown
       /\ validated.value = lastInput.data

\* C9: every call of processThought returns a success envelope or an error
\* envelope; no exception leaves it.
C9_NeverThrows ==
  IsCall(lastOp) =>
    /\ ~result.raised
    /\ IsSuccessEnvelope(result) \/ IsErrorEnvelope(result)

\* a failure after validation: the push onto an inherited property
C9_Witness ==
  /\ IsCall(lastOp)
  /\ Accepted(lastInput)
  /\ ErrorWith(result, MsgTypeErrorPush)

\* C10 as stated: the envelope the tool hands back for an input that fails
\* validation carries the failure flag and a body with error and status
\* "failed"; a success envelope does not carry the flag.
C10_ToolErrorFlag ==
  lastOp = "tool" =>
    /\ ~Accepted(lastInput)
         => /\ response.isError
            /\ response.keys = ErrorKeys
            /\ response.status = "failed"
    /\ response.keys = SuccessKeys => ~response.isError


\* C11: a success envelope reports thoughtNumber and nextThoughtNeeded as
\* submitted, totalThoughts as stored, the set of the branch identifiers
\* registered so far, this call's included, and the length of the history,
\* this call's record included.
C11_SuccessEnvelopeContents ==
  (IsCall(lastOp) /\ IsSuccessEnvelope(result)) =>
     /\ result.thoughtNumber = lastInput.data.thoughtNumber
     /\ result.nextThoughtNeeded = lastInput.data.nextThoughtNeeded
     /\ result.totalThoughts = LastRecord(heap, thoughtHistory).totalThoughts
     /\ Range(result.branches) = Range(KeysOf(branches))
     /\ result.thoughtHistoryLength = Len(thoughtHistory)

\* a corrected totalThoughts, a branch registered, the second record
C11_Witness ==
  /\ IsCall(lastOp)
  /\ IsSuccessEnvelope(result)
  /\ result.totalThoughts # lastInput.data.totalThoughts
  /\ Len(result.branches) >= 1
  /\ result.thoughtHistoryLength = 2

\* C12 as stated: the branches list of a success envelope lists the branch
\* identifiers, each once, in the order in which each first appeared in a
\* call (the order in which the branch sequences were created).
C12_BranchesInFirstAppearanceOrder ==
  (IsCall(lastOp) /\ IsSuccessEnvelope(result)) =>
     result.branches = KeysOf(branches)

\* C13: after a successful call the history is the old history with the new
\* record added at the end, and the earlier records are as they were.
C13_AppendOnly ==
  [][(IsCall(lastOp') /\ IsSuccessEnvelope(result')) =>
       /\ Len(thoughtHistory') = Len(thoughtHistory) + 1
       /\ SubSeq(thoughtHistory', 1, Len(thoughtHistory)) = thoughtHistory
       /\ thoughtHistory'[Len(thoughtHistory')] \notin Range(thoughtHistory)
       /\ \A i \in 1..Len(thoughtHistory) :
            heap'[thoughtHistory[i]] = heap[thoughtHistory[i]]
       /\ LastRecord(heap', thoughtHistory').thought = lastInput'.data.thought
       /\ LastRecord(heap', thoughtHistory').thoughtNumber
            = lastInput'.data.thoughtNumber]_vars

\* the third record carries a smaller thoughtNumber than the first and the
\* same as the second
C13_Witness ==
  /\ IsCall(lastOp)
  /\ IsSuccessEnvelope(result)
  /\ Len(thoughtHistory) = 3
  /\ heap[thoughtHistory[3]].thoughtNumber.n < heap[thoughtHistory[1]].thoughtNumber.n
  /\ heap[thoughtHistory[3]].thoughtNumber = heap[thoughtHistory[2]].thoughtNumber

\* exactly one of branchFromThought and branchId is present
OnlyOneOfBranchPair(data) ==
  IsUndefined(data.branchFromThought) # IsUndefined(data.branchId)

\* C14: a record that carries only one of branchFromThought and branchId is
\* accepted: it is appended to the history, a success envelope is returned
\* and no branch sequence is created or extended.
C14_LoneBranchFieldAccepted ==
  [][(/\ IsCall(lastOp')
      /\ Accepted(lastInput')
      /\ OnlyOneOfBranchPair(lastInput'.data)) =>
       /\ IsSuccessEnvelope(result')
       /\ Len(thoughtHistory') = Len(thoughtHistory) + 1
       /\ LastRecord(heap', thoughtHistory').branchId = lastInput'.data.branchId
       /\ branches' = branches]_vars

\* a lone branchId that names an existing branch
C14_Witness ==
  /\ IsCall(lastOp)
  /\ Accepted(lastInput)
  /\ IsUndefined(lastInput.data.branchFromThought)
  /\ ~IsUndefined(lastInput.data.branchId)
  /\ IsSuccessEnvelope(result)
  /\ Len(thoughtHistory) = 2
  /\ Len(BranchItems(branches, lastInput.data.branchId.s)) = 1

\* C19 as stated: a call that returns an error envelope leaves the history
\* and the branches as they were.
C19_ErrorLeavesStateUnchanged ==
  [][(IsCall(lastOp') /\ IsErrorEnvelope(result')) =>
       /\ thoughtHistory' = thoughtHistory
       /\ branches' = branches
       /\ heap' = heap]_vars


C16_KthSuccessReturnsK ==
  \A k \in 1..Len(successes) : successes[k] = k

(***************************************************************************)
(* C17: GET /sse, any number of times, leaves history and branches (and    *)
(* the records they hold) unchanged, and a call handled afterwards         *)
(* continues from the accumulated history.                                 *)
(***************************************************************************)
C17_SseKeepsSession ==
  [][/\ transports' # transports =>
          /\ heap' = heap
          /\ thoughtHistory' = thoughtHistory
          /\ branches' = branches
     /\ (lastOp' = "tool" /\ IsSuccessEnvelope(result')) =>
          result'.thoughtHistoryLength = Len(thoughtHistory) + 1]_vars

C17_Witness ==
  /\ lastOp = "sse"
  /\ transports >= 2
  /\ thoughtHistory # <<>>
  /\ successes # <<>>

(***************************************************************************)
(* C20: a POST /messages before any GET /sse is answered 400 and handed to *)
(* no transport and no tool handler; after a GET /sse a POST is handed to  *)
(* the transport established last.                                         *)
(***************************************************************************)
C20_PostNeedsTransport ==
  [][/\ transports = 0 =>
          /\ inflight' = <<>>
          /\ lastOp' # "tool"
          /\ lastOp' = "post" => lastHttp' = HttpAnswer(BadRequest, 0)
     /\ (lastOp' = "post" /\ transports # 0) =>
          /\ inflight' = Append(inflight, [params |-> lastInput',
                                          transport |-> transports])
          /\ lastHttp' = HttpAnswer(0, transports)]_vars

C20_Witness ==
  /\ lastOp = "post"
  /\ transports = 0
  /\ lastHttp.status = BadRequest
  /\ inflight = <<>>


(***************************************************************************)
(* C15: no SQL of a caller runs outside a read-only transaction and none   *)
(* is committed.  BEGIN TRANSACTION READ ONLY does precede the caller's    *)
(* SQL and ROLLBACK follows it, but the SQL string may hold a COMMIT that  *)
(* ends the read-only transaction before its next statement.               *)
(***************************************************************************)
C15_CallerSqlReadOnly ==
  ~outside /\ ~committed


=============================================================================
